---- MODULE Spec2Model ----
(***************************************************************************)
(* The reminder lifecycle engine of OpenCoach:                             *)
(*   POST /api/reminders           extraction cycle (stat CONTEXT.md,      *)
(*                                 call the extractor, merge, write)       *)
(*   GET  /api/reminders/check     due-check (detect, mark, write)         *)
(*   POST /api/reminders/complete  acknowledge                             *)
(* all three read-modify-write the one file state.json.  A handler is a    *)
(* Node.js async function: the code between two awaits runs atomically,    *)
(* and other requests run while a handler waits.  Each action below is one *)
(* such atomic segment.                                                    *)
(***************************************************************************)
EXTENDS Integers, Sequences, FiniteSets, TLC

(* ---------------- bounds of the model ---------------- *)
MaxNow == 1
MaxFresh == 2
MaxRequests == 3

(* ---------------- values ---------------- *)
Undefined == -1
NaN == -2
Absent == 0

Procs == {"r1", "r2"}

DateTimes == {"2025-11-16T09:00:00", "2025-11-16T18:00:00"}
NotesFolder == "notes"

\* new Date(dateTime): the instant an ISO string denotes, NaN (Invalid Date)
\* for a string that is no date.
DateOf(dateTime) ==
  CASE dateTime = "2025-11-16T09:00:00" -> 0
    [] dateTime = "2025-11-16T18:00:00" -> 1
    [] OTHER -> NaN

\* reminderTime <= now on Date objects: false when reminderTime is Invalid.
DateLeq(t, n) == t # NaN /\ t <= n

\* A reminder as it is kept in state.json.  completed = FALSE stands for a
\* completed field that is absent (the only non-true value the handlers
\* ever write).
Reminder(dt, txt, c) == [dateTime |-> dt, reminderText |-> txt, completed |-> c]

RECURSIVE SeqsUpTo(_, _)
SeqsUpTo(S, n) ==
  IF n = 0 THEN {<< >>}
  ELSE LET shorter == SeqsUpTo(S, n - 1)
       IN shorter \cup {Append(s, x) : s \in {t \in shorter : Len(t) = n - 1}, x \in S}

\* The wording of a version of CONTEXT.md, the version being the one its
\* mtime names.
ContentOf(mtimeMs) == IF mtimeMs % 2 = 1 THEN "A" ELSE "B"

\* RemindersPayload.reminders: what the extractor may return for a document,
\* any times in any order (a time may occur twice), each with the wording
\* of the document.
FreshLists(contextContent) ==
  {[i \in 1..Len(dts) |-> Reminder(dts[i], contextContent, FALSE)] :
     dts \in SeqsUpTo(DateTimes, MaxFresh)}

\* let state: StateFile = {}.  extra stands for the fields the type admits
\* by [key: string]: any and the handlers do not know.
EmptyState ==
  [reminders |-> << >>, lastRun |-> Undefined,
   lastContextMtimeMs |-> Undefined, notesFolderPath |-> "", extra |-> Undefined]

VARIABLES
  now,        \* the wall clock (new Date())
  context,    \* CONTEXT.md: Absent, or its mtimeMs
  stateJson,  \* state.json: [exists, content]
  pc,         \* per request slot: the await the handler is suspended at
  loc,        \* per request slot: the handler's local variables
  last,       \* the response of the request that completed last
  requests,   \* the number of requests received so far
  client      \* per request slot: the callback of page.tsx that uses it

vars == <<now, context, stateJson, pc, loc, last, requests, client>>

Locals0 ==
  [notesFolderPath |-> "", currentMtimeMs |-> Undefined, state |-> EmptyState,
   loaded |-> FALSE, payload |-> << >>, newState |-> EmptyState, now |-> 0,
   dueReminders |-> << >>, reminderDateTimes |-> {}, markedCount |-> 0]

\* No callback of the page is running in a slot.
NoCallback ==
  [stage |-> "none", firedReminderDateTimes |-> {}, notesFolderPathFromState |-> ""]

NoResponse ==
  [op |-> "none", ok |-> TRUE, outcome |-> "none", now |-> 0,
   mtimeMs |-> Undefined, invoked |-> FALSE, wrote |-> FALSE,
   dueReminders |-> << >>, reminderDateTimes |-> {}, markedCount |-> 0]

Init ==
  /\ now = 0
  /\ context = Absent
  /\ stateJson = [exists |-> FALSE, content |-> EmptyState]
  /\ pc = [p \in Procs |-> "idle"]
  /\ loc = [p \in Procs |-> Locals0]
  /\ last = NoResponse
  /\ requests = 0
  /\ client = [p \in Procs |-> NoCallback]

(* ---------------- environment ---------------- *)

\* Time passes.
Tick ==
  /\ now < MaxNow
  /\ now' = now + 1
  /\ UNCHANGED <<context, stateJson, pc, loc, last, requests>>

\* The user creates or edits CONTEXT.md, or puts an older version back: its
\* mtime becomes another instant up to the present.
EditContext ==
  /\ \E m \in 1..(now + 1) : m # context /\ context' = m
  /\ UNCHANGED <<now, stateJson, pc, loc, last, requests>>

\* The user deletes CONTEXT.md.
RemoveContext ==
  /\ context # Absent
  /\ context' = Absent
  /\ UNCHANGED <<now, stateJson, pc, loc, last, requests>>

(* ---------------- the response of a handler ---------------- *)

\* return new Response(...): the handler of slot p is over.
Respond(p, r) ==
  /\ pc' = [pc EXCEPT ![p] = "idle"]
  /\ loc' = [loc EXCEPT ![p] = Locals0]
  /\ last' = r

\* The state a handler gets from "Load existing state.json if present".
LoadState == IF stateJson.exists THEN stateJson.content ELSE EmptyState

(* ---------------- extraction cycle: POST /api/reminders ---------------- *)

\* existingRemindersMap.has(dateTime)
MapHas(existingReminders, dateTime) ==
  \E i \in 1..Len(existingReminders) : existingReminders[i].dateTime = dateTime

\* existingRemindersMap.get(dateTime): the map is filled by set() in array
\* order, so the last entry with that dateTime is the one it holds.
MapGet(existingReminders, dateTime) ==
  LET idx == {i \in 1..Len(existingReminders) : existingReminders[i].dateTime = dateTime}
  IN existingReminders[CHOOSE i \in idx : \A j \in idx : j <= i]

\* remindersPayload.reminders.some(r => r.dateTime === existing.dateTime)
StillExists(fresh, existing) ==
  \E i \in 1..Len(fresh) : fresh[i].dateTime = existing.dateTime

\* First loop: one output per fresh reminder, the existing entry when it is
\* completed, the fresh one otherwise.
MergeFresh(existingReminders, fresh) ==
  [i \in 1..Len(fresh) |->
     IF MapHas(existingReminders, fresh[i].dateTime)
        /\ MapGet(existingReminders, fresh[i].dateTime).completed
     THEN MapGet(existingReminders, fresh[i].dateTime)
     ELSE fresh[i]]

\* A second loop without the completed test: it would keep every existing
\* reminder the fresh list does not name, stale pending ones included.
KeptAny(existing, fresh) == ~StillExists(fresh, existing)

\* if (existing.completed === true) { ... if (!stillExists) push(existing) }
KeptCompleted(existing, fresh) == existing.completed /\ ~StillExists(fresh, existing)

\* Second loop: the completed existing reminders the fresh list does not name.
MergeKept(existingReminders, fresh) ==
  SelectSeq(existingReminders, LAMBDA existing : KeptCompleted(existing, fresh))

\* mergedReminders
Merge(existingReminders, fresh) ==
  MergeFresh(existingReminders, fresh) \o MergeKept(existingReminders, fresh)

\* A fingerprint test by order: it would skip every document that is not
\* newer than the one extracted last.
UnchangedOrOlder(state, currentMtimeMs) ==
  state.lastContextMtimeMs # Undefined /\ state.lastContextMtimeMs >= currentMtimeMs

\* A fingerprint test that would compare the mtime with lastRun.
UnchangedSinceLastRun(state, currentMtimeMs) ==
  state.lastRun # Undefined /\ state.lastRun = currentMtimeMs

\* The fingerprint test that skips the extractor.
Unchanged(state, currentMtimeMs) ==
  state.lastContextMtimeMs # Undefined /\ state.lastContextMtimeMs = currentMtimeMs

\* A newState that would not record the fingerprint of the document it was
\* extracted from.
NewStateStale(state, mergedReminders, nowIso, currentMtimeMs, notesFolderPath) ==
  [state EXCEPT !.reminders = mergedReminders, !.lastRun = nowIso,
                !.notesFolderPath = notesFolderPath]

\* A newState that would record the run and the fingerprint and leave the
\* notes folder as the state had it.
NewStateKeepsFolder(state, mergedReminders, nowIso, currentMtimeMs, notesFolderPath) ==
  [state EXCEPT !.reminders = mergedReminders, !.lastRun = nowIso,
                !.lastContextMtimeMs = currentMtimeMs]

\* newState = {...state, reminders, lastRun, lastContextMtimeMs, notesFolderPath}
NewState(state, mergedReminders, nowIso, currentMtimeMs, notesFolderPath) ==
  [state EXCEPT !.reminders = mergedReminders, !.lastRun = nowIso,
                !.lastContextMtimeMs = currentMtimeMs,
                !.notesFolderPath = notesFolderPath]

ExtractResponse(ok, outcome, mtimeMs, invoked, wrote) ==
  [NoResponse EXCEPT !.op = "extract", !.ok = ok, !.outcome = outcome,
                     !.mtimeMs = mtimeMs, !.invoked = invoked, !.wrote = wrote]

\* A stat that would not tell a missing document from an inaccessible one.
StatResultEnoentIsError(statFails) ==
  IF context = Absent \/ statFails THEN "error" ELSE "ok"

\* await stat(contextPath): it throws ENOENT when CONTEXT.md does not exist,
\* and may throw another error when it does.
StatResult(statFails) ==
  IF context = Absent THEN "ENOENT" ELSE IF statFails THEN "error" ELSE "ok"

\* A request arrives: the body is validated and CONTEXT.md is stat-ed.
POST_stat(p) ==
  /\ pc[p] = "idle"
  /\ requests < MaxRequests
  /\ requests' = requests + 1
  /\ \E notesFolderPath \in {"", NotesFolder}, statFails \in BOOLEAN :
       IF notesFolderPath = ""
       THEN Respond(p, ExtractResponse(FALSE, "bad-request", Undefined, FALSE, FALSE))
       ELSE IF StatResult(statFails) = "ENOENT"
       THEN Respond(p, ExtractResponse(TRUE, "no-context", Undefined, FALSE, FALSE))
       ELSE IF StatResult(statFails) = "error"
       THEN Respond(p, ExtractResponse(FALSE, "access-error", Undefined, FALSE, FALSE))
       ELSE /\ pc' = [pc EXCEPT ![p] = "post_readState"]
            /\ loc' = [loc EXCEPT ![p].notesFolderPath = notesFolderPath,
                                   ![p].currentMtimeMs = context]
            /\ last' = last
  /\ UNCHANGED <<now, context, stateJson>>

\* A catch that would go on with the reminders state.json held, its other
\* fields dropped.
StartKeepingReminders(loadFails) ==
  IF loadFails THEN [EmptyState EXCEPT !.reminders = LoadState.reminders] ELSE LoadState

\* The state of the cycle after "Load existing state.json if present":
\* the catch sets state = {} ("starting fresh").
StartFresh(loadFails) == IF loadFails THEN EmptyState ELSE LoadState

\* state.json is loaded and the fingerprint compared; when the file cannot
\* be read or parsed the cycle starts from an empty state.
POST_readState(p) ==
  /\ pc[p] = "post_readState"
  /\ \E loadFails \in {FALSE, stateJson.exists} :
       LET state == StartFresh(loadFails)
       IN IF Unchanged(state, loc[p].currentMtimeMs)
          THEN Respond(p, ExtractResponse(TRUE, "unchanged", loc[p].currentMtimeMs, FALSE, FALSE))
          ELSE /\ pc' = [pc EXCEPT ![p] = "post_openai"]
               /\ loc' = [loc EXCEPT ![p].state = state, ![p].loaded = ~loadFails]
               /\ last' = last
  /\ UNCHANGED <<now, context, stateJson, requests>>

\* A failure path that would record the fingerprint before giving up, so
\* that the next cycle skips the document.
NoPayloadRecordsFingerprint(p) ==
  /\ stateJson' = [exists |-> TRUE,
                   content |-> [loc[p].state EXCEPT
                                  !.lastContextMtimeMs = loc[p].currentMtimeMs]]
  /\ Respond(p, ExtractResponse(FALSE, "extraction-failed", loc[p].currentMtimeMs, TRUE, FALSE))

\* if (!remindersPayload): the cycle ends with an error and state.json is
\* left as it is.
NoPayload(p) ==
  /\ stateJson' = stateJson
  /\ Respond(p, ExtractResponse(FALSE, "extraction-failed", loc[p].currentMtimeMs, TRUE, FALSE))

\* A failed read of CONTEXT.md that would be answered as a skipped cycle.
ReadErrorSkips(p) ==
  /\ stateJson' = stateJson
  /\ Respond(p, ExtractResponse(TRUE, "read-error", loc[p].currentMtimeMs, FALSE, FALSE))

\* readFile(contextPath) throws: the outer catch answers with status 500,
\* before the extractor is called.
ReadError(p) ==
  /\ stateJson' = stateJson
  /\ Respond(p, ExtractResponse(FALSE, "read-error", loc[p].currentMtimeMs, FALSE, FALSE))

\* CONTEXT.md is read and the extractor called; on a payload the merge is
\* computed and the write of state.json issued.
POST_openai(p) ==
  /\ pc[p] = "post_openai"
  /\ \E readFails \in BOOLEAN, valid \in BOOLEAN :
       IF readFails \/ context = Absent
       THEN /\ valid
            /\ ReadError(p)
       ELSE IF ~valid
       THEN NoPayload(p)
       ELSE \E fresh \in FreshLists(ContentOf(context)) :
            /\ pc' = [pc EXCEPT ![p] = "post_write"]
            /\ loc' = [loc EXCEPT
                 ![p].payload = fresh,
                 ![p].newState = NewState(loc[p].state, Merge(loc[p].state.reminders, fresh),
                                          now, loc[p].currentMtimeMs, loc[p].notesFolderPath)]
            /\ UNCHANGED <<stateJson, last>>
  /\ UNCHANGED <<now, context, requests>>

\* A write failure that would leave the handler as an exception: the
\* framework answers in its place, with no JSON outcome.
WriteErrorEscapes(p) ==
  /\ stateJson' = stateJson
  /\ Respond(p, ExtractResponse(FALSE, "unhandled", loc[p].currentMtimeMs, TRUE, FALSE))

\* A write failure that would be logged and passed over, as in the
\* due-check: the cycle would answer updated = true.
WriteErrorPassedOver(p) ==
  /\ stateJson' = stateJson
  /\ Respond(p, ExtractResponse(TRUE, "updated", loc[p].currentMtimeMs, TRUE, FALSE))

\* writeFile(STATE_PATH, newState) throws: the outer catch answers with
\* status 500.
WriteError(p) ==
  /\ stateJson' = stateJson
  /\ Respond(p, ExtractResponse(FALSE, "write-error", loc[p].currentMtimeMs, TRUE, FALSE))

\* writeFile(STATE_PATH, newState) completes or throws.
POST_write(p) ==
  /\ pc[p] = "post_write"
  /\ \E writeFails \in BOOLEAN :
       IF writeFails
       THEN WriteError(p)
       ELSE /\ stateJson' = [exists |-> TRUE, content |-> loc[p].newState]
            /\ Respond(p, ExtractResponse(TRUE, "updated", loc[p].currentMtimeMs, TRUE, TRUE))
  /\ UNCHANGED <<now, context, requests>>

(* ---------------- due-check: GET /api/reminders/check ---------------- *)

\* A scan that would compare with <: a reminder would not be due at the
\* instant it names.
IsDueStrict(reminder, n) ==
  ~reminder.completed /\ DateOf(reminder.dateTime) # NaN /\ DateOf(reminder.dateTime) < n

\* A scan without the comparison with now: every reminder that is not
\* completed would be due.
IsDueAnyTime(reminder, n) == ~reminder.completed

\* The scan: a reminder is due when completed is not true and its time has
\* come.
IsDue(reminder, n) ==
  ~reminder.completed /\ DateLeq(DateOf(reminder.dateTime), n)

\* The positions the scan pushes to dueReminders.
DueIndices(reminders, n) == {i \in 1..Len(reminders) : IsDue(reminders[i], n)}

\* reminders.find(r => r.dateTime === dateTime): the first entry with it
\* (0 when there is none).
FindIndex(reminders, dateTime) ==
  LET idx == {i \in 1..Len(reminders) : reminders[i].dateTime = dateTime}
  IN IF idx = {} THEN 0 ELSE CHOOSE i \in idx : \A j \in idx : i <= j

\* One round of the marking loop: the entry find() returns for the due
\* reminder at position k gets completed = true when it is not yet.
MarkOne(reminders, k) ==
  LET j == FindIndex(reminders, reminders[k].dateTime)
  IN IF j # 0 /\ ~reminders[j].completed
     THEN [reminders EXCEPT ![j].completed = TRUE]
     ELSE reminders

\* The marking loop over dueReminders, in array order.
RECURSIVE MarkDue(_, _)
MarkDue(reminders, due) ==
  IF due = {} THEN reminders
  ELSE LET k == CHOOSE i \in due : \A j \in due : i <= j
       IN MarkDue(MarkOne(reminders, k), due \ {k})

\* dueReminders as serialised in the response: the array holds references
\* to the entries of reminders, so it shows them as they are after marking.
RECURSIVE Pick(_, _)
Pick(reminders, idx) ==
  IF idx = {} THEN << >>
  ELSE LET k == CHOOSE i \in idx : \A j \in idx : i <= j
       IN <<reminders[k]>> \o Pick(reminders, idx \ {k})

CheckResponse(ok, outcome, n, dueReminders, wrote) ==
  [NoResponse EXCEPT !.op = "check", !.ok = ok, !.outcome = outcome, !.now = n,
                     !.dueReminders = dueReminders, !.wrote = wrote]

\* A request arrives: state.json is loaded, the due reminders are collected
\* and marked, and the write is issued when any was marked.
GET_read(p) ==
  /\ pc[p] = "idle"
  /\ requests < MaxRequests
  /\ requests' = requests + 1
  /\ \E loadFails \in {FALSE, stateJson.exists} :
     LET reminders == LoadState.reminders
         due == DueIndices(reminders, now)
         marked == MarkDue(reminders, due)
     IN IF ~stateJson.exists
        THEN Respond(p, CheckResponse(TRUE, "no-state", now, << >>, FALSE))
        ELSE IF loadFails
        THEN Respond(p, CheckResponse(FALSE, "state-error", now, << >>, FALSE))
        ELSE IF marked = reminders
        THEN Respond(p, CheckResponse(TRUE, "due", now, Pick(marked, due), FALSE))
        ELSE /\ pc' = [pc EXCEPT ![p] = "get_write"]
             /\ loc' = [loc EXCEPT
                  ![p].state = LoadState,
                  ![p].now = now,
                  ![p].dueReminders = Pick(marked, due),
                  ![p].newState = [LoadState EXCEPT !.reminders = marked]]
             /\ last' = last
  /\ UNCHANGED <<now, context, stateJson>>

\* A write failure that would be answered as an error, without the due
\* reminders.
DueNotSavedFails(p) ==
  /\ stateJson' = stateJson
  /\ Respond(p, CheckResponse(FALSE, "due-not-saved", loc[p].now, << >>, FALSE))

\* writeFile throws in the inner try: the failure is logged and the handler
\* goes on to return the due reminders.
DueNotSaved(p) ==
  /\ stateJson' = stateJson
  /\ Respond(p, CheckResponse(TRUE, "due-not-saved", loc[p].now, loc[p].dueReminders, FALSE))

\* writeFile(STATE_PATH, updatedState) completes or throws; either way the
\* due reminders are returned.
GET_write(p) ==
  /\ pc[p] = "get_write"
  /\ \E writeFails \in BOOLEAN :
       IF writeFails
       THEN DueNotSaved(p)
       ELSE /\ stateJson' = [exists |-> TRUE, content |-> loc[p].newState]
            /\ Respond(p, CheckResponse(TRUE, "due", loc[p].now,
                                        loc[p].dueReminders, TRUE))
  /\ UNCHANGED <<now, context, requests>>

(* ---------------- acknowledge: POST /api/reminders/complete ---------------- *)

\* A loop that would look each listed dateTime up with find(), as the
\* due-check does: only the first entry of a dateTime would be marked.
MarkListedFirst(reminders, reminderDateTimes) ==
  [i \in 1..Len(reminders) |->
     IF reminders[i].dateTime \in reminderDateTimes /\ ~reminders[i].completed
        /\ FindIndex(reminders, reminders[i].dateTime) = i
     THEN [reminders[i] EXCEPT !.completed = TRUE]
     ELSE reminders[i]]

\* The loop that marks every entry whose dateTime is in the list.
MarkListed(reminders, reminderDateTimes) ==
  [i \in 1..Len(reminders) |->
     IF reminders[i].dateTime \in reminderDateTimes /\ ~reminders[i].completed
     THEN [reminders[i] EXCEPT !.completed = TRUE]
     ELSE reminders[i]]

\* A count without the !reminder.completed test: it would count the listed
\* reminders that are completed already.
MarkedCountListed(reminders, reminderDateTimes) ==
  Cardinality({i \in 1..Len(reminders) : reminders[i].dateTime \in reminderDateTimes})

\* markedCount
MarkedCount(reminders, reminderDateTimes) ==
  Cardinality({i \in 1..Len(reminders) :
                 reminders[i].dateTime \in reminderDateTimes /\ ~reminders[i].completed})

\* A response of the acknowledge, with the list the request carried.
CompleteResponse(ok, outcome, reminderDateTimes, markedCount, wrote) ==
  [NoResponse EXCEPT !.op = "complete", !.ok = ok, !.outcome = outcome,
                     !.reminderDateTimes = reminderDateTimes,
                     !.markedCount = markedCount, !.wrote = wrote]

\* An answer to a missing state.json that would report nothing to mark.
CompleteNoStateOk(reminderDateTimes) ==
  CompleteResponse(TRUE, "no-state", reminderDateTimes, 0, FALSE)

\* The else branch of fs.existsSync(STATE_PATH): status 404.
CompleteNoState(reminderDateTimes) ==
  CompleteResponse(FALSE, "no-state", reminderDateTimes, 0, FALSE)

\* A request arrives: the body is validated, state.json loaded and the
\* listed reminders marked.
COMPLETE_read(p) ==
  /\ pc[p] = "idle"
  /\ requests < MaxRequests
  /\ requests' = requests + 1
  /\ \E reminderDateTimes \in SUBSET DateTimes, loadFails \in {FALSE, stateJson.exists} :
       LET reminders == LoadState.reminders
           markedCount == MarkedCount(reminders, reminderDateTimes)
       IN IF reminderDateTimes = {}
          THEN /\ ~loadFails
               /\ Respond(p, CompleteResponse(FALSE, "bad-request", reminderDateTimes, 0, FALSE))
          ELSE IF ~stateJson.exists
          THEN Respond(p, CompleteNoState(reminderDateTimes))
          ELSE IF loadFails
          THEN Respond(p, CompleteResponse(FALSE, "state-error", reminderDateTimes, 0, FALSE))
          ELSE IF markedCount = 0
          THEN Respond(p, CompleteResponse(TRUE, "marked", reminderDateTimes, 0, FALSE))
          ELSE /\ pc' = [pc EXCEPT ![p] = "complete_write"]
               /\ loc' = [loc EXCEPT
                    ![p].state = LoadState,
                    ![p].reminderDateTimes = reminderDateTimes,
                    ![p].markedCount = markedCount,
                    ![p].newState = [LoadState EXCEPT
                         !.reminders = MarkListed(reminders, reminderDateTimes)]]
               /\ last' = last
  /\ UNCHANGED <<now, context, stateJson>>

\* writeFile(STATE_PATH, updatedState) completes or throws.
COMPLETE_write(p) ==
  /\ pc[p] = "complete_write"
  /\ \E writeFails \in BOOLEAN :
       IF writeFails
       THEN /\ stateJson' = stateJson
            /\ Respond(p, CompleteResponse(FALSE, "write-error", loc[p].reminderDateTimes, 0, FALSE))
       ELSE /\ stateJson' = [exists |-> TRUE, content |-> loc[p].newState]
            /\ Respond(p, CompleteResponse(TRUE, "marked", loc[p].reminderDateTimes,
                                           loc[p].markedCount, TRUE))
  /\ UNCHANGED <<now, context, requests>>

(* ---------------- POST /api/state ---------------- *)

\* POST /api/state with a body that carries one field the reminder
\* handlers do not know: state = {...state, ...updates} is written to
\* state.json, which is created when it does not exist.
AddUnknownField ==
  /\ LoadState.extra = Undefined
  /\ stateJson' = [exists |-> TRUE, content |-> [LoadState EXCEPT !.extra = 1]]
  /\ UNCHANGED <<now, context, pc, loc, last, requests>>

(* ---------------- specifications ---------------- *)

Step(p) ==
  \/ POST_stat(p) \/ POST_readState(p) \/ POST_openai(p) \/ POST_write(p)
  \/ GET_read(p) \/ GET_write(p)
  \/ COMPLETE_read(p) \/ COMPLETE_write(p)

Environment == Tick \/ EditContext \/ RemoveContext

\* Requests overlap: any handler may run while another one waits.  The
\* requests come from any caller of the three routes.
Next ==
  \/ Tick /\ UNCHANGED client
  \/ EditContext /\ UNCHANGED client
  \/ RemoveContext /\ UNCHANGED client
  \/ \E p \in Procs : POST_stat(p) /\ UNCHANGED client
  \/ \E p \in Procs : POST_readState(p) /\ UNCHANGED client
  \/ \E p \in Procs : POST_openai(p) /\ UNCHANGED client
  \/ \E p \in Procs : POST_write(p) /\ UNCHANGED client
  \/ \E p \in Procs : GET_read(p) /\ UNCHANGED client
  \/ \E p \in Procs : GET_write(p) /\ UNCHANGED client
  \/ \E p \in Procs : COMPLETE_read(p) /\ UNCHANGED client
  \/ \E p \in Procs : COMPLETE_write(p) /\ UNCHANGED client

Spec == Init /\ [][Next]_vars

\* One request at a time: a handler runs from its first to its last step
\* before another request arrives, and the clock and CONTEXT.md change only
\* between two requests.
InFlight == {p \in Procs : pc[p] # "idle"}

NextSeq ==
  \/ InFlight = {} /\ Environment /\ UNCHANGED client
  \/ InFlight \subseteq {"r1"} /\ Step("r1") /\ UNCHANGED client

SpecSeq == Init /\ [][NextSeq]_vars

\* One request at a time, the requests to /api/state among them.
NextFields == NextSeq \/ (InFlight = {} /\ AddUnknownField /\ UNCHANGED client)

SpecFields == Init /\ [][NextFields]_vars

(* ======================================================================= *)
(* Properties                                                              *)
(* ======================================================================= *)

\* The reminders of the persisted store.
Stored == LoadState.reminders

DateTimesOf(rs) == {rs[i].dateTime : i \in 1..Len(rs)}
CompletedDateTimes(rs) == {rs[i].dateTime : i \in {j \in 1..Len(rs) : rs[j].completed}}
PendingDateTimes(rs) == {rs[i].dateTime : i \in {j \in 1..Len(rs) : ~rs[j].completed}}
Holds(rs, r) == \E i \in 1..Len(rs) : rs[i] = r
UniqueDateTimes(rs) ==
  \A i, j \in 1..Len(rs) : rs[i].dateTime = rs[j].dateTime => i = j

\* What a caller sees of a returned reminder: its time and its text.
Ident(r) == <<r.dateTime, r.reminderText>>
Idents(rs) == {Ident(rs[i]) : i \in 1..Len(rs)}
IdentSeq(rs) == [i \in 1..Len(rs) |-> Ident(rs[i])]

\* This step ends a request: last' is its response.
Responded ==
  \/ \E p \in Procs : pc[p] # "idle" /\ pc'[p] = "idle"
  \/ requests' = requests + 1 /\ pc' = pc
ExtractDone == Responded /\ last'.op = "extract"
CheckDone == Responded /\ last'.op = "check"
CompleteDone == Responded /\ last'.op = "complete"

\* This step is the successful write of the merge computed by slot p from
\* the store it read (loc[p].state) and the fresh list (loc[p].payload).
Merged(p) == pc[p] = "post_write" /\ pc'[p] = "idle" /\ last'.outcome = "updated"

\* C1 (as claimed): every dateTime that has a completed reminder in the
\* store before a merge still has a completed reminder after it.
C1_MonotonicCompletion ==
  [][\A p \in Procs : Merged(p) =>
       CompletedDateTimes(Stored) \subseteq CompletedDateTimes(Stored')]_vars

\* C2 (as claimed): when the store holds a completed reminder for a
\* dateTime the fresh list names, the merged store holds that reminder
\* (original text, completed) and no non-completed reminder for that
\* dateTime.
C2_NoResurrection ==
  [][\A p \in Procs : Merged(p) =>
       \A i \in 1..Len(loc[p].state.reminders) :
         LET existing == loc[p].state.reminders[i]
         IN (existing.completed /\ existing.dateTime \in DateTimesOf(loc[p].payload))
            => /\ Holds(Stored', existing)
               /\ existing.dateTime \notin PendingDateTimes(Stored')]_vars

\* C3 (as claimed, for a first call whose write did not fail): of two
\* due-checks in succession at the same now, the second returns none of
\* the reminders the first returned.
C3_AtMostOnceDelivery ==
  [][(CheckDone /\ last.op = "check" /\ last.outcome = "due" /\ last'.now = last.now)
       => Idents(last'.dueReminders) \cap Idents(last.dueReminders) = {}]_vars

\* C4 (as claimed): no two entries of the store share a dateTime.
C4_UniqueDateTime == UniqueDateTimes(Stored)

\* C5 (as claimed): a reminder that was marked completed in state.json
\* while an extraction cycle waited (completed in the file when the cycle
\* writes, not in the state the cycle read) is completed after the cycle's
\* write, and no non-completed reminder for its dateTime is stored.
C5_NoLostUpdate ==
  [][\A p \in Procs : Merged(p) =>
       \A d \in CompletedDateTimes(Stored) \ CompletedDateTimes(loc[p].state.reminders) :
         d \in CompletedDateTimes(Stored') /\ d \notin PendingDateTimes(Stored')]_vars

\* C6 (as claimed): of two extraction cycles in succession that see the
\* same mtime, the second returns skipped 'unchanged' and does not invoke
\* the extractor.
C6_FingerprintSkip_AsClaimed ==
  [][(ExtractDone /\ last.op = "extract" /\ last.mtimeMs # Undefined
        /\ last'.mtimeMs = last.mtimeMs)
       => (last'.outcome = "unchanged" /\ ~last'.invoked)]_vars

\* C6 (amended): of two extraction cycles in succession that see the same
\* mtime, when the first ended with updated = true or skipped 'unchanged'
\* and the second does not fail to load state.json, the second returns
\* skipped 'unchanged' and does not invoke the extractor.
C6_FingerprintSkip ==
  [][\A p \in Procs :
       (/\ ExtractDone /\ pc'[p] = "idle"
        /\ pc[p] = "post_readState" \/ (pc[p] \in {"post_openai", "post_write"} /\ loc[p].loaded)
        /\ last.op = "extract" /\ last.outcome \in {"updated", "unchanged"}
        /\ last'.mtimeMs = last.mtimeMs)
       => (last'.outcome = "unchanged" /\ ~last'.invoked)]_vars

\* Two requests were served, and the second was an extraction cycle that
\* skipped the extractor: the first was the cycle that stored the
\* fingerprint the second one compared the same mtime with.
C6_Witness ==
  /\ requests = 2 /\ InFlight = {}
  /\ last.op = "extract" /\ last.outcome = "unchanged" /\ ~last.invoked
  /\ stateJson.exists /\ stateJson.content.lastContextMtimeMs = last.mtimeMs

\* C7: a cycle whose extractor returns no valid payload answers with an
\* error and leaves state.json as it was, and the next cycle that sees the
\* same mtime, still not the fingerprint state.json holds, does not skip:
\* it invokes the extractor again (unless reading the document fails
\* first).
C7_FailureRetried ==
  [][/\ (Responded /\ last'.outcome = "extraction-failed")
          => (~last'.ok /\ stateJson' = stateJson)
     /\ (ExtractDone /\ last.op = "extract" /\ last.outcome = "extraction-failed"
           /\ last'.mtimeMs = last.mtimeMs /\ ~Unchanged(LoadState, last.mtimeMs))
          => /\ last'.outcome \in {"read-error", "extraction-failed", "write-error", "updated"}
             /\ (last'.outcome # "read-error" => last'.invoked)]_vars

\* The cycle after a failed extraction has called the extractor again for
\* the same mtime and got a payload.
C7_Witness ==
  \E p \in Procs :
    /\ pc[p] = "post_write"
    /\ last.op = "extract" /\ last.outcome = "extraction-failed"
    /\ last.mtimeMs = loc[p].currentMtimeMs

\* C8: after a successful merge no existing reminder that was not
\* completed and whose dateTime the fresh list does not name is stored.
C8_StalePendingDecay ==
  [][\A p \in Procs : Merged(p) =>
       \A i \in 1..Len(loc[p].state.reminders) :
         LET existing == loc[p].state.reminders[i]
         IN (~existing.completed /\ existing.dateTime \notin DateTimesOf(loc[p].payload))
            => ~Holds(Stored', existing)]_vars

\* A merge has been computed from a store with a completed reminder and a
\* stale pending one, and a non-empty fresh list: the merged list does not
\* hold the stale one.
C8_Witness ==
  \E p \in Procs :
    /\ pc[p] = "post_write"
    /\ \E i \in 1..Len(loc[p].state.reminders) :
         /\ ~loc[p].state.reminders[i].completed
         /\ loc[p].state.reminders[i].dateTime \notin DateTimesOf(loc[p].payload)
         /\ ~Holds(loc[p].newState.reminders, loc[p].state.reminders[i])
    /\ loc[p].payload # << >>
    /\ CompletedDateTimes(loc[p].state.reminders) # {}

\* No completed existing reminder has the dateTime of r.
NoCompleted(existingReminders, r) == r.dateTime \notin CompletedDateTimes(existingReminders)

\* C9 (as claimed): after a successful merge the non-completed reminders
\* of the store are exactly the fresh reminders whose dateTime has no
\* completed existing reminder.
C9_PendingIsLatest ==
  [][\A p \in Procs : Merged(p) =>
       SelectSeq(Stored', LAMBDA r : ~r.completed)
         = SelectSeq(loc[p].payload, LAMBDA r : NoCompleted(loc[p].state.reminders, r))]_vars

\* C10 (as claimed): the due-check returns exactly the reminders that are
\* not completed and whose dateTime <= now, and after its successful write
\* every one of them is stored completed.
C10_DueDetection ==
  [][\A p \in Procs : (pc[p] = "get_write" /\ pc'[p] = "idle") =>
       LET rs == loc[p].state.reminders
           due == {i \in 1..Len(rs) : ~rs[i].completed /\ DateOf(rs[i].dateTime) # NaN
                                         /\ DateOf(rs[i].dateTime) <= loc[p].now}
       IN /\ IdentSeq(last'.dueReminders)
               = IdentSeq(SelectSeq(rs, LAMBDA r : ~r.completed /\ DateOf(r.dateTime) # NaN
                                                     /\ DateOf(r.dateTime) <= loc[p].now))
          /\ last'.outcome = "due" =>
               \A i \in due : Len(Stored') >= i /\ Stored'[i].completed]_vars

\* C11 (as claimed): of two acknowledges in succession with the same
\* non-empty list, the second returns ok with markedCount 0 and leaves
\* state.json as the first left it.
C11_IdempotentAcknowledge_AsClaimed ==
  [][(CompleteDone /\ last.op = "complete" /\ last.reminderDateTimes # {}
        /\ last'.reminderDateTimes = last.reminderDateTimes)
       => (last'.ok /\ last'.markedCount = 0 /\ stateJson' = stateJson)]_vars

\* C11 (amended): of two acknowledges in succession with the same
\* non-empty list, when the first returned ok (state.json exists and was
\* read, and written when a reminder was marked) and the second does not
\* fail to load state.json, the second returns ok with markedCount 0 and
\* leaves state.json as the first left it.
C11_IdempotentAcknowledge ==
  [][(CompleteDone /\ last.op = "complete" /\ last.reminderDateTimes # {}
        /\ last'.reminderDateTimes = last.reminderDateTimes
        /\ last.ok /\ last'.outcome # "state-error")
       => (last'.ok /\ last'.markedCount = 0 /\ stateJson' = stateJson)]_vars

\* An acknowledge has marked and written reminders, and a second one can
\* follow it.
C11_Witness ==
  /\ InFlight = {} /\ requests < MaxRequests
  /\ last.op = "complete" /\ last.ok /\ last.wrote /\ last.markedCount > 0
  /\ last.reminderDateTimes \subseteq CompletedDateTimes(Stored)

\* C12: an extraction cycle that arrives when CONTEXT.md does not exist
\* answers at once, without loading state.json: skipped 'no-context', ok,
\* the extractor not invoked and state.json as it was.
C12_MissingSource ==
  [][/\ (requests' = requests + 1 /\ context = Absent)
          => \A p \in Procs : pc'[p] = "post_readState" => pc[p] = "post_readState"
     /\ (ExtractDone /\ pc' = pc /\ context = Absent /\ last'.outcome # "bad-request")
          => /\ last'.outcome = "no-context" /\ last'.ok /\ ~last'.invoked
             /\ stateJson' = stateJson
     /\ (ExtractDone /\ last'.outcome = "no-context")
          => context = Absent /\ stateJson' = stateJson]_vars

\* A cycle was skipped for a missing document while state.json held
\* reminders.
C12_Witness ==
  /\ last.op = "extract" /\ last.outcome = "no-context"
  /\ context = Absent /\ Stored # << >>

\* C13: an extraction cycle that cannot stat CONTEXT.md for another reason
\* than its absence, or cannot read it after the stat, answers with an
\* error, has not invoked the extractor and leaves state.json as it was.
C13_AccessError ==
  [][(ExtractDone /\ last'.outcome \in {"access-error", "read-error"})
       => (~last'.ok /\ ~last'.invoked /\ ~last'.wrote /\ stateJson' = stateJson)]_vars

\* A cycle whose read of the document failed has answered while state.json
\* held reminders, and so has one whose stat failed.
C13_Witness ==
  /\ last.op = "extract" /\ last.outcome \in {"access-error", "read-error"}
  /\ context # Absent /\ Stored # << >>

\* C14: a due-check whose write of state.json fails answers ok with every
\* reminder it detected and leaves state.json as it was, and the next
\* due-check (when it loads state.json) returns all of them again.
C14_DueCheckPersistenceFailure ==
  [][/\ \A p \in Procs :
          (pc[p] = "get_write" /\ pc'[p] = "idle" /\ last'.outcome = "due-not-saved")
            => /\ last'.ok /\ stateJson' = stateJson
               /\ IdentSeq(last'.dueReminders)
                    = IdentSeq(SelectSeq(loc[p].state.reminders,
                                         LAMBDA r : IsDue(r, loc[p].now)))
     /\ (CheckDone /\ last.op = "check" /\ last.outcome = "due-not-saved"
           /\ last'.outcome # "state-error")
          => /\ last'.ok
             /\ Idents(last.dueReminders) \subseteq Idents(last'.dueReminders)]_vars

\* After a due-check whose write failed, the next one has detected the same
\* reminders again.
C14_Witness ==
  \E p \in Procs :
    /\ pc[p] = "get_write"
    /\ last.op = "check" /\ last.outcome = "due-not-saved" /\ last.dueReminders # << >>
    /\ Idents(last.dueReminders) \subseteq Idents(loc[p].dueReminders)

\* C15 (as claimed): a field of state.json the handlers do not know is
\* there with the same value after every step of an extraction cycle, a
\* due-check and an acknowledge.
C15_ForwardCompatibility ==
  [][(stateJson.exists /\ stateJson.content.extra # Undefined)
       => (stateJson'.exists /\ stateJson'.content.extra = stateJson.content.extra)]_vars

\* C19 (as claimed): every reminder of a dueReminders result is in its
\* form before the marking, completed not true.
C19_PreMutationCopies ==
  [][CheckDone =>
       \A i \in 1..Len(last'.dueReminders) : ~last'.dueReminders[i].completed]_vars

AfterCompleteIgnoresFailure(c, completeJson) ==
  IF c.notesFolderPathFromState # ""
  THEN [c EXCEPT !.stage = "recalc"]
  ELSE NoCallback

\* checkDueReminders after the answer of /api/reminders/complete: it
\* returns when the answer is not ok, and goes on to the re-extraction
\* when state.json named a notes folder.
AfterComplete(c, completeJson) ==
  IF ~completeJson.ok THEN NoCallback
  ELSE IF c.notesFolderPathFromState # ""
  THEN [c EXCEPT !.stage = "recalc"]
  ELSE NoCallback

\* checkDueReminders after the answer of /api/reminders/check: it returns
\* when the answer is not ok or names no due reminder; otherwise the
\* notifications are fired (fired: the dateTimes of those that were) and
\* the acknowledge comes next, or the re-extraction when none was fired.
AfterCheck(json, notesFolderPathFromState, fired) ==
  IF ~json.ok \/ json.dueReminders = << >> THEN NoCallback
  ELSE IF fired # {}
  THEN [stage |-> "complete", firedReminderDateTimes |-> fired,
        notesFolderPathFromState |-> notesFolderPathFromState]
  ELSE IF notesFolderPathFromState # ""
  THEN [stage |-> "recalc", firedReminderDateTimes |-> {},
        notesFolderPathFromState |-> notesFolderPathFromState]
  ELSE NoCallback

\* What the callback of slot p does with the response json of the request
\* it awaited.
After(p, json, notesFolderPathFromState, fired) ==
  CASE client[p].stage = "check" -> AfterCheck(json, notesFolderPathFromState, fired)
    [] client[p].stage = "complete" -> AfterComplete(client[p], json)
    [] OTHER -> NoCallback

\* firedReminderDateTimes: every due reminder, or none when new
\* Notification(...) throws.
Fired(json) == {DateTimesOf(json.dueReminders), {}}

\* The handler of slot p takes a step; when it answers, the callback that
\* awaits the answer goes on.
Await(p) ==
  /\ pc[p] # "idle"
  /\ Step(p)
  /\ IF pc'[p] = "idle"
     THEN \E fired \in Fired(last') :
            client' = [client EXCEPT
                         ![p] = After(p, last', loc[p].state.notesFolderPath, fired)]
     ELSE client' = client

\* The extraction timer fires: runOnce posts to /api/reminders, whether or
\* not an earlier runOnce still awaits its answer.
runOnce(p) ==
  /\ client[p].stage = "none"
  /\ POST_stat(p)
  /\ IF pc'[p] = "idle"
     THEN last'.outcome # "bad-request" /\ client' = client
     ELSE client' = [client EXCEPT ![p].stage = "runOnce"]

\* The due-check timer fires: checkDueReminders gets /api/reminders/check.
checkDueReminders(p) ==
  /\ client[p].stage = "none"
  /\ GET_read(p)
  /\ IF pc'[p] = "idle"
     THEN \E fired \in Fired(last') :
            client' = [client EXCEPT
                         ![p] = AfterCheck(last', LoadState.notesFolderPath, fired)]
     ELSE client' = [client EXCEPT ![p].stage = "check"]

\* checkDueReminders posts the fired dateTimes to /api/reminders/complete.
checkDueReminders_complete(p) ==
  /\ client[p].stage = "complete"
  /\ COMPLETE_read(p)
  /\ IF pc'[p] = "idle"
     THEN /\ last'.reminderDateTimes = client[p].firedReminderDateTimes
          /\ client' = [client EXCEPT ![p] = AfterComplete(client[p], last')]
     ELSE /\ loc'[p].reminderDateTimes = client[p].firedReminderDateTimes
          /\ client' = client

\* checkDueReminders posts to /api/reminders again.
checkDueReminders_recalc(p) ==
  /\ client[p].stage = "recalc"
  /\ POST_stat(p)
  /\ IF pc'[p] = "idle"
     THEN last'.outcome # "bad-request" /\ client' = [client EXCEPT ![p] = NoCallback]
     ELSE client' = client

\* The page drives the three routes.
NextPage ==
  \/ Tick /\ UNCHANGED client
  \/ EditContext /\ UNCHANGED client
  \/ RemoveContext /\ UNCHANGED client
  \/ \E p \in Procs : runOnce(p)
  \/ \E p \in Procs : checkDueReminders(p)
  \/ \E p \in Procs : checkDueReminders_complete(p)
  \/ \E p \in Procs : checkDueReminders_recalc(p)
  \/ \E p \in Procs : Await(p)

SpecPage == Init /\ [][NextPage]_vars

\* One callback at a time: a callback runs to its end before a timer fires
\* again, and the clock and CONTEXT.md change only between two callbacks.
NextPageSeq ==
  \/ InFlight = {} /\ client["r1"] = NoCallback /\ Environment /\ UNCHANGED client
  \/ InFlight = {} /\ runOnce("r1")
  \/ InFlight = {} /\ checkDueReminders("r1")
  \/ checkDueReminders_complete("r1")
  \/ checkDueReminders_recalc("r1")
  \/ Await("r1")

SpecPageSeq == Init /\ [][NextPageSeq]_vars

\* Every await of a handler settles: the file system and the extractor
\* answer or fail.
SpecPageSeqFair == SpecPageSeq /\ WF_vars(Await("r1"))

\* The outcomes a handler answers with, and those that are errors.
Outcomes ==
  {"bad-request", "no-context", "access-error", "unchanged", "read-error",
   "extraction-failed", "write-error", "updated", "no-state", "state-error",
   "due", "due-not-saved", "marked"}
ErrorOutcomes ==
  {"bad-request", "access-error", "read-error", "extraction-failed", "write-error",
   "state-error"}

\* C16: every request is answered (a handler that has started comes to its
\* response whatever fails on its way), every answer is a JSON outcome with
\* ok true, or ok false and an error, and a callback that got an answer
\* with ok false has returned, so that its timer can start the next one.
C16_NoFailureEscapes ==
  /\ [][Responded =>
          /\ last'.op \in {"extract", "check", "complete"}
          /\ last'.ok \in BOOLEAN /\ last'.outcome \in Outcomes
          /\ last'.outcome \in ErrorOutcomes => ~last'.ok
          /\ ~last'.ok => /\ last'.outcome \in ErrorOutcomes \cup {"no-state"}
                          /\ \A p \in Procs : pc'[p] = "idle" => client'[p] = NoCallback]_vars
  /\ \A p \in Procs : (pc[p] # "idle") ~> (pc[p] = "idle")

\* A callback has returned after an answer with ok false, and its timer can
\* start another one.
C16_Witness ==
  /\ last.op # "none" /\ ~last.ok
  /\ InFlight = {} /\ client["r1"] = NoCallback
  /\ requests < MaxRequests /\ stateJson.exists

\* C17 (as claimed): at most one runOnce and at most one checkDueReminders
\* are in flight.
C17_OneInFlightPerTimer ==
  /\ Cardinality({p \in Procs : client[p].stage = "runOnce"}) <= 1
  /\ Cardinality({p \in Procs : client[p].stage \in {"check", "complete", "recalc"}}) <= 1

\* C18: an acknowledge that cannot read or write state.json answers with
\* ok false, and the checkDueReminders that awaited an answer with ok false
\* returns: its next request, the re-extraction, is not sent.
C18_AcknowledgeFailure ==
  [][/\ (CompleteDone /\ last'.outcome \in {"no-state", "state-error", "write-error"})
          => ~last'.ok
     /\ \A p \in Procs :
          (client[p].stage = "complete" /\ CompleteDone /\ pc'[p] = "idle" /\ ~last'.ok)
            => client'[p] = NoCallback]_vars

\* checkDueReminders has returned after an acknowledge that failed, with a
\* notes folder in state.json that the re-extraction would have used.
C18_Witness ==
  /\ InFlight = {} /\ client["r1"] = NoCallback
  /\ last.op = "complete" /\ ~last.ok
  /\ last.outcome \in {"state-error", "write-error"}
  /\ LoadState.notesFolderPath # ""

(* ======================================================================= *)
(* Properties of overlapping requests, of the frame and of the retry       *)
(* ======================================================================= *)

\* C21 (as claimed): two due-checks that have both read state.json before
\* either wrote it return no reminder in common.
C21_ConcurrentDueChecks ==
  \A p, q \in Procs :
    (p # q /\ pc[p] = "get_write" /\ pc[q] = "get_write")
      => Idents(loc[p].dueReminders) \cap Idents(loc[q].dueReminders) = {}

\* The due positions of reminders that share their dateTime with another
\* due position.
DuplicateDue(reminders, n) ==
  {i \in DueIndices(reminders, n) :
     \E j \in DueIndices(reminders, n) : j # i /\ reminders[j].dateTime = reminders[i].dateTime}

\* C22 (as claimed): a due-check that read two or more non-completed due
\* entries with the same dateTime, and whose write succeeded, leaves each
\* of them completed in the store.
C22_CompletesEveryReturned ==
  [][\A p \in Procs :
       (pc[p] = "get_write" /\ pc'[p] = "idle" /\ last'.outcome = "due")
         => \A i \in DuplicateDue(loc[p].state.reminders, loc[p].now) :
              /\ Holds(last'.dueReminders, [loc[p].state.reminders[i] EXCEPT !.completed = TRUE])
                   \/ Holds(last'.dueReminders, loc[p].state.reminders[i])
              /\ Len(Stored') >= i /\ Stored'[i].completed]_vars

\* C24: an extraction cycle whose write of state.json fails answers with an
\* error, not with updated = true, and leaves state.json (its
\* lastContextMtimeMs included) as it was; the next cycle that sees the
\* same mtime, still not the fingerprint state.json holds, invokes the
\* extractor again (unless reading the document fails first).
C24_ExtractionPersistenceFailure ==
  [][/\ \A p \in Procs :
          (pc[p] = "post_write" /\ pc'[p] = "idle" /\ ~last'.wrote)
            => /\ ~last'.ok /\ last'.outcome = "write-error"
               /\ stateJson' = stateJson
     /\ (ExtractDone /\ last.op = "extract" /\ last.outcome = "write-error"
           /\ last'.mtimeMs = last.mtimeMs /\ ~Unchanged(LoadState, last.mtimeMs))
          => /\ last'.outcome \in {"read-error", "extraction-failed", "write-error", "updated"}
             /\ (last'.outcome # "read-error" => last'.invoked)]_vars

\* The cycle after one whose write failed has called the extractor again
\* for the same mtime and got a payload.
C24_Witness ==
  \E p \in Procs :
    /\ pc[p] = "post_write"
    /\ last.op = "extract" /\ last.outcome = "write-error"
    /\ last.mtimeMs = loc[p].currentMtimeMs
    /\ stateJson.exists => stateJson.content.lastContextMtimeMs # last.mtimeMs

\* The step of slot p in which callOpenAIForReminders is called.
Invokes(p) ==
  /\ pc[p] = "post_openai"
  /\ pc'[p] = "post_write" \/ (pc'[p] = "idle" /\ last'.outcome = "extraction-failed")

\* C25: a cycle skips with 'unchanged', without invoking the extractor or
\* writing, exactly when the lastContextMtimeMs of the state it loaded is
\* a number equal to the mtime of the document; otherwise (fingerprint
\* absent, or another number, larger ones included) it goes on to read the
\* document and invokes the extractor unless that read fails; a cycle that
\* ends at the stat (no document, no access) does not invoke it.
C25_ChangeDetection ==
  [][\A p \in Procs :
       /\ (pc[p] = "idle" /\ pc'[p] = "post_readState")
            => context # Absent /\ loc'[p].currentMtimeMs = context
       /\ (pc[p] = "idle" /\ requests' = requests + 1 /\ pc' = pc /\ last'.op = "extract")
            => ~last'.invoked /\ stateJson' = stateJson
       /\ (pc[p] = "post_readState" /\ pc'[p] = "idle")
            => /\ last'.outcome = "unchanged" /\ last'.ok /\ ~last'.invoked
               /\ stateJson' = stateJson
               /\ stateJson.exists
               /\ stateJson.content.lastContextMtimeMs = loc[p].currentMtimeMs
       /\ (pc[p] = "post_readState" /\ pc'[p] = "post_openai")
            => /\ loc'[p].state.lastContextMtimeMs # loc[p].currentMtimeMs
               /\ loc'[p].loaded => loc'[p].state = LoadState
               /\ ~loc'[p].loaded => loc'[p].state = EmptyState
       /\ (pc[p] = "post_openai" /\ pc'[p] # "post_openai")
            => \/ Invokes(p) /\ context # Absent
               \/ /\ pc'[p] = "idle" /\ last'.outcome = "read-error"
                  /\ ~last'.invoked /\ stateJson' = stateJson
       /\ (ExtractDone /\ pc'[p] = "idle" /\ pc[p] # "idle")
            => (last'.invoked <=> (pc[p] = "post_write" \/ Invokes(p)))]_vars

\* A cycle has invoked the extractor for a document whose mtime is smaller
\* than the fingerprint state.json holds.
C25_Witness ==
  \E p \in Procs :
    /\ pc[p] = "post_write" /\ loc[p].loaded
    /\ loc[p].state.lastContextMtimeMs # Undefined
    /\ loc[p].currentMtimeMs < loc[p].state.lastContextMtimeMs

\* lastRun, lastContextMtimeMs and notesFolderPath of a state.
Bookkeeping(state) == <<state.lastRun, state.lastContextMtimeMs, state.notesFolderPath>>

\* C26: the step that changes lastRun, lastContextMtimeMs or
\* notesFolderPath in state.json is the write of an extraction cycle that
\* answers updated = true, and that write sets all three: lastRun to the
\* time of the cycle, lastContextMtimeMs to the mtime the cycle saw at its
\* start and notesFolderPath to the folder of the request.  No step of a
\* due-check, of an acknowledge or of a skipped or failed cycle changes
\* any of them.
C26_BookkeepingOnSuccess ==
  [][/\ Bookkeeping(LoadState') # Bookkeeping(LoadState)
          => (ExtractDone /\ last'.ok /\ last'.outcome = "updated")
     /\ \A p \in Procs : Merged(p) =>
          /\ stateJson'.exists
          /\ stateJson'.content.lastContextMtimeMs = loc[p].currentMtimeMs
          /\ stateJson'.content.notesFolderPath = loc[p].notesFolderPath
          /\ stateJson'.content.lastRun \in 0..now
     /\ (Responded /\ ~(last'.op = "extract" /\ last'.outcome = "updated"))
          => Bookkeeping(LoadState') = Bookkeeping(LoadState)]_vars

\* A due-check has marked reminders and written state.json, which holds
\* the bookkeeping a successful extraction cycle wrote.
C26_Witness ==
  /\ last.op = "check" /\ last.wrote
  /\ stateJson.content.lastContextMtimeMs = 2
  /\ stateJson.content.notesFolderPath = NotesFolder
  /\ stateJson.content.lastRun # Undefined

\* C27: a due-check that writes state.json changes nothing but completed,
\* from not true to true, of entries that were not completed, whose
\* dateTime <= now and that it returns: the store has the same entries in
\* the same order with the same dateTime and reminderText, and the same
\* other fields.  A due-check that returns no reminder does not write.
C27_DueCheckFrame ==
  [][/\ \A p \in Procs :
          (pc[p] = "get_write" /\ pc'[p] = "idle" /\ last'.wrote)
            => /\ Len(Stored') = Len(Stored)
               /\ [stateJson'.content EXCEPT !.reminders = Stored] = stateJson.content
               /\ \A i \in 1..Len(Stored) :
                    /\ Stored'[i].dateTime = Stored[i].dateTime
                    /\ Stored'[i].reminderText = Stored[i].reminderText
                    /\ Stored'[i].completed # Stored[i].completed
                         => /\ Stored'[i].completed
                            /\ DateOf(Stored[i].dateTime) <= loc[p].now
                            /\ Holds(last'.dueReminders, Stored'[i])
     /\ (CheckDone /\ ~last'.wrote) => stateJson' = stateJson
     /\ (CheckDone /\ last'.dueReminders = << >>) => ~last'.wrote]_vars

\* A due-check has marked a reminder and written a store that also holds a
\* reminder whose time has not come, still not completed.
C27_Witness ==
  /\ last.op = "check" /\ last.wrote /\ InFlight = {}
  /\ \E i \in 1..Len(Stored) :
       ~Stored[i].completed /\ DateOf(Stored[i].dateTime) > last.now
  /\ \E i \in 1..Len(Stored) :
       Stored[i].completed /\ Holds(last.dueReminders, Stored[i])

\* C29: when state.json exists and cannot be read or parsed, a due-check
\* and an acknowledge answer with an error and leave the file as it is; an
\* extraction cycle goes on from an empty state, and its successful write
\* leaves a store that holds the fresh reminders, none completed, the new
\* lastRun, lastContextMtimeMs and notesFolderPath, and nothing else.
C29_UnparsableStore ==
  [][/\ (Responded /\ last'.op \in {"check", "complete"} /\ last'.outcome = "state-error")
          => (~last'.ok /\ ~last'.wrote /\ stateJson' = stateJson /\ stateJson.exists)
     /\ \A p \in Procs :
          /\ (pc[p] = "post_readState" /\ pc'[p] = "post_openai" /\ ~loc'[p].loaded)
               => (stateJson.exists /\ loc'[p].state = EmptyState)
          /\ (Merged(p) /\ ~loc[p].loaded)
               => /\ Stored' = loc[p].payload
                  /\ \A i \in 1..Len(Stored') : ~Stored'[i].completed
                  /\ stateJson'.content =
                       [EmptyState EXCEPT !.reminders = loc[p].payload,
                                          !.lastRun = stateJson'.content.lastRun,
                                          !.lastContextMtimeMs = loc[p].currentMtimeMs,
                                          !.notesFolderPath = loc[p].notesFolderPath]
                  /\ stateJson'.content.lastRun \in 0..now]_vars

\* A cycle that could not load a state.json holding completed reminders
\* has got a payload and is about to write.
C29_Witness ==
  \E p \in Procs :
    /\ pc[p] = "post_write" /\ ~loc[p].loaded
    /\ stateJson.exists /\ CompletedDateTimes(Stored) # {}
    /\ loc[p].payload # << >>

\* C30: an acknowledge that writes state.json has set completed = true on
\* every entry whose dateTime is in the list and that was not completed,
\* and changed nothing else (same entries in the same order, same other
\* fields); its markedCount is the number of entries it changed.  An
\* acknowledge that finds nothing to mark, dateTimes that are not in the
\* store included, answers ok with markedCount 0 and does not write.
C30_AcknowledgeEffect ==
  [][/\ \A p \in Procs :
          (pc[p] = "complete_write" /\ pc'[p] = "idle" /\ last'.wrote)
            => LET L == last'.reminderDateTimes
                   changed == {i \in 1..Len(Stored) : Stored'[i] # Stored[i]}
               IN /\ last'.ok
                  /\ Len(Stored') = Len(Stored)
                  /\ [stateJson'.content EXCEPT !.reminders = Stored] = stateJson.content
                  /\ \A i \in 1..Len(Stored) :
                       Stored'[i] = IF Stored[i].dateTime \in L /\ ~Stored[i].completed
                                    THEN Reminder(Stored[i].dateTime, Stored[i].reminderText, TRUE)
                                    ELSE Stored[i]
                  /\ last'.markedCount = Cardinality(changed)
                  /\ last'.markedCount > 0
     /\ (CompleteDone /\ pc' = pc /\ stateJson.exists
           /\ last'.outcome \notin {"bad-request", "state-error"})
          => /\ last'.ok /\ last'.markedCount = 0 /\ ~last'.wrote
             /\ \A i \in 1..Len(Stored) :
                  Stored[i].dateTime \in last'.reminderDateTimes => Stored[i].completed
     /\ (CompleteDone /\ ~last'.wrote) => stateJson' = stateJson]_vars

\* An acknowledge has marked and written reminders for a list that also
\* names a dateTime the store does not hold.
C30_Witness ==
  /\ last.op = "complete" /\ last.ok /\ last.wrote /\ last.markedCount > 0
  /\ \E d \in last.reminderDateTimes : d \notin DateTimesOf(Stored)

(* ---------------- the page, with its timers firing for ever ---------------- *)

\* The requests are counted in windows of MaxRequests: the count starts
\* again, so that the timers never run out of requests.
CountAgain ==
  /\ requests = MaxRequests
  /\ requests' = 0
  /\ UNCHANGED <<now, context, stateJson, pc, loc, last, client>>

NextPageLive == NextPageSeq \/ CountAgain

\* One callback at a time, for ever: a callback that has started runs to
\* its end, and every await settles.
SpecPageLive ==
  /\ Init /\ [][NextPageLive]_vars
  /\ WF_vars(CountAgain)
  /\ WF_vars(Await("r1"))
  /\ WF_vars(checkDueReminders_complete("r1"))
  /\ WF_vars(checkDueReminders_recalc("r1"))

\* This step ends a request with an error of the file system or of the
\* extractor.
Fails ==
  /\ Responded
  /\ last'.outcome \in {"access-error", "read-error", "extraction-failed", "write-error",
                        "state-error", "due-not-saved"}

\* The mtimes CONTEXT.md can have.
Mtimes == 1..(MaxNow + 1)

\* state.json holds m as the fingerprint of the document extracted last.
Fingerprint(m) == stateJson.exists /\ stateJson.content.lastContextMtimeMs = m

\* C28: when the extraction timer keeps firing and, from some time on, no
\* request fails in the file system or the extractor, then while
\* CONTEXT.md keeps an mtime that is not the fingerprint in state.json the
\* cycles retry until one stores it: eventually the fingerprint is that
\* mtime or the document has changed again.  Once the fingerprint is the
\* mtime of the document, a cycle that loads state.json answers skipped
\* 'unchanged', does not invoke the extractor and does not write.
C28_RetrySucceeds ==
  /\ ([]<><<runOnce("r1")>>_vars /\ <>[][~Fails]_vars)
       => \A m \in Mtimes : (context = m /\ ~Fingerprint(m)) ~> (Fingerprint(m) \/ context # m)
  /\ [][\A p \in Procs :
          (pc[p] = "post_readState" /\ pc'[p] # "post_readState"
             /\ Fingerprint(loc[p].currentMtimeMs))
            => \/ /\ pc'[p] = "idle" /\ last'.outcome = "unchanged" /\ last'.ok
                  /\ ~last'.invoked /\ stateJson' = stateJson
               \/ pc'[p] = "post_openai" /\ ~loc'[p].loaded]_vars

\* A cycle has stored the fingerprint of the document, and a cycle at a
\* later time has skipped the extractor for it.
C28_Witness ==
  /\ last.op = "extract" /\ last.outcome = "unchanged"
  /\ context # Absent /\ Fingerprint(context)
  /\ stateJson.content.lastRun < now

\* state.json holds a reminder for d that is not completed, and the time
\* of d has come.
PendingDue(d) ==
  stateJson.exists /\ d \in PendingDateTimes(Stored) /\ DateLeq(DateOf(d), now)

\* The due-check answered last returned a reminder for d.
Returned(d) == last.op = "check" /\ d \in DateTimesOf(last.dueReminders)

\* This step is the answer of a due-check that returns a reminder for d,
\* or of the acknowledge of the reminders the due-check before it returned.
Delivered(d) ==
  \/ CheckDone /\ d \in DateTimesOf(last'.dueReminders)
  \/ CompleteDone /\ d \in last'.reminderDateTimes

\* C23 (as claimed): a reminder that is pending and due stays so, whatever
\* extraction cycle writes the store, until a due-check returns it.
C23_DueNotLost_AsClaimed ==
  [][\A d \in DateTimes :
       (PendingDue(d) /\ d \notin PendingDateTimes(Stored')) => Delivered(d)]_vars

\* C23 (amended): a reminder that is pending and due stays so until a
\* due-check returns it or an extraction cycle writes a merge whose fresh
\* list does not name its dateTime; and when due-checks that load
\* state.json keep running, a later due-check returns a reminder for its
\* dateTime, unless such a merge has dropped it.
C23_DueNotLost ==
  /\ [][\A d \in DateTimes :
          (PendingDue(d) /\ d \notin PendingDateTimes(Stored'))
            => \/ Delivered(d)
               \/ \E p \in Procs : Merged(p) /\ d \notin DateTimesOf(loc[p].payload)]_vars
  /\ []<><<checkDueReminders("r1")
            /\ (pc'["r1"] = "get_write" \/ last'.outcome # "state-error")>>_vars
       => \A d \in DateTimes : PendingDue(d) ~> (Returned(d) \/ ~PendingDue(d))

\* A due-check has returned, with the wording of a later version of the
\* document, a reminder whose time had come before: an extraction cycle
\* that named its dateTime ran before the due-check.
C23_Witness ==
  /\ last.op = "check" /\ last.ok
  /\ \E i \in 1..Len(last.dueReminders) :
       /\ last.dueReminders[i].reminderText = ContentOf(2)
       /\ DateOf(last.dueReminders[i].dateTime) < last.now

====
